---- MODULE Spec2Model ----
(***************************************************************************)
(* mergepath: merge source directory trees into one destination tree,     *)
(* transferring each distinct file content once.  Three goroutines: main  *)
(* (the walker), hashFiles (the fingerprinter) and processFile (the merge *)
(* engine), joined by two unbuffered channels.                            *)
(*                                                                         *)
(* Paths are sequences of one-character strings, so that filepath.Join,   *)
(* filepath.Clean and strings.SplitN are computed character by character. *)
(***************************************************************************)
EXTENDS Integers, Sequences, FiniteSets, TLC

\* ------------------------------------------------------------------ bounds

\* Number of distinct file contents a source file may hold.
NumContents == 2
\* Largest number of source roots on the command line.
MaxRoots == 2

\* ----------------------------------------------------------------- strings

Sep == "/"

Last(s) == s[Len(s)]

\* strings.Index: position of the first occurrence of sep in s, 0 when none.
IndexOf(s, sep) ==
  LET hits == {i \in 1..(Len(s) - Len(sep) + 1) : SubSeq(s, i, i + Len(sep) - 1) = sep}
  IN  IF hits = {} THEN 0 ELSE CHOOSE i \in hits : \A j \in hits : i <= j

\* strings.SplitN(s, sep, 2) for a non-empty sep: at most two pieces, cut at
\* the first occurrence of sep; the one-element <<s>> when sep does not occur.
SplitN2(s, sep) ==
  LET i == IndexOf(s, sep)
  IN  IF i = 0 THEN <<s>>
      ELSE <<SubSeq(s, 1, i - 1), SubSeq(s, i + Len(sep), Len(s))>>

\* The components of s between separators (empty components included).
RECURSIVE SplitSep(_)
SplitSep(s) ==
  LET i == IndexOf(s, <<Sep>>)
  IN  IF i = 0 THEN <<s>>
      ELSE <<SubSeq(s, 1, i - 1)>> \o SplitSep(SubSeq(s, i + 1, Len(s)))

RECURSIVE JoinSep(_)
JoinSep(comps) ==
  IF comps = <<>> THEN <<>>
  ELSE IF Len(comps) = 1 THEN comps[1]
  ELSE comps[1] \o <<Sep>> \o JoinSep(Tail(comps))

\* filepath.Clean's pass over the components: drop empty and "." elements,
\* let ".." cancel the element before it, drop ".." at the start of a rooted
\* path.
RECURSIVE CleanComps(_, _, _)
CleanComps(comps, out, rooted) ==
  IF comps = <<>> THEN out
  ELSE LET c == Head(comps)
           rest == Tail(comps)
       IN  IF c = <<>> \/ c = <<".">> THEN CleanComps(rest, out, rooted)
           ELSE IF c = <<".", ".">>
             THEN IF out # <<>> /\ Last(out) # <<".", ".">>
                    THEN CleanComps(rest, SubSeq(out, 1, Len(out) - 1), rooted)
                  ELSE IF rooted THEN CleanComps(rest, out, rooted)
                  ELSE CleanComps(rest, Append(out, c), rooted)
           ELSE CleanComps(rest, Append(out, c), rooted)

\* filepath.Clean
Clean(path) ==
  IF path = <<>> THEN <<".">>
  ELSE LET rooted == path[1] = Sep
           body == JoinSep(CleanComps(SplitSep(path), <<>>, rooted))
           r == IF rooted THEN <<Sep>> \o body ELSE body
       IN  IF r = <<>> THEN <<".">> ELSE r

\* filepath.Join of two elements: empty elements are ignored, the rest are
\* joined by the separator and cleaned.
Join(a, b) ==
  IF a # <<>> THEN Clean(a \o <<Sep>> \o b)
  ELSE IF b # <<>> THEN Clean(b)
  ELSE <<>>

\* ------------------------------------------------------------- file system

\* fs maps a clean path to what is stored there: Absent, a content c in
\* 1..NumContents, or Partial(c), a truncated copy of c.
Absent == 0
Contents == 1..NumContents
Partial(c) == 0 - c

\* flag.Args()[0]
DstDir == <<"/", "d">>

\* Source roots a command line may name (flag.Args()[1:]).
RootChoices == {<<"a">>, <<"b">>, <<".">>}

\* Directories of the working directory, by clean path, and the names that a
\* directory may hold, in the sorted order readDirNames returns them.
Dirs == {<<".">>, <<"a">>, <<"a", Sep, "s">>, <<"b">>}
DirNames(d) ==
  IF d = <<".">> THEN << <<"a">>, <<"b">> >>
  ELSE IF d = <<"a">> THEN << <<"s">>, <<"x">>, <<"x", ".", "y">> >>
  ELSE IF d = <<"b">> THEN << <<"l">>, <<"x">> >>
  ELSE <<>>

SrcFiles == {<<"a", Sep, "x">>, <<"a", Sep, "x", ".", "y">>, <<"b", Sep, "x">>}

IsDir(path) == Clean(path) \in Dirs
IsFile(f, path) == Clean(path) \in DOMAIN f /\ f[Clean(path)] # Absent

\* Entries that are neither directories nor regular files: b/l is a symbolic
\* link whose target does not exist.  Lstat succeeds on it, os.Open fails.
Specials == {<<"b", Sep, "l">>}
IsSpecial(path) == Clean(path) \in Specials

\* readDirNames followed by filepath.Join(path, name): the entries of directory
\* path that exist when the directory is read.
RECURSIVE ChildPaths(_, _, _)
ChildPaths(f, path, names) ==
  IF names = <<>> THEN <<>>
  ELSE LET p == Join(path, Head(names))
       IN  (IF IsDir(p) \/ IsFile(f, p) \/ IsSpecial(p) THEN <<p>> ELSE <<>>)
           \o ChildPaths(f, path, Tail(names))

\* sha256 of a file's bytes: one digest per content.
Sha256(c) == <<"sha256", c>>

\* getPathProcessor's dstPath: <<p>> when the split has a second piece, <<>>
\* when strings.SplitN(path, rootDir, 2)[1] is out of range (a panic).
DstPathOf(path, rootDir, dstDir) ==
  LET parts == SplitN2(path, rootDir)
  IN  IF Len(parts) < 2 THEN <<>> ELSE <<Join(dstDir, parts[2])>>

\* The destination paths any walk of any root can produce.
DstPaths ==
  UNION {{q[i] : i \in 1..Len(q)} :
           q \in {DstPathOf(p, r, DstDir) :
                    p \in SrcFiles \cup Specials, r \in RootChoices}}

Paths == SrcFiles \cup Specials \cup DstPaths

\* ------------------------------------------------------------------- state

VARIABLES
  move,          \* the -m flag
  args,          \* flag.Args()[1:], the source roots
  fs,            \* the file system: Paths -> Absent, content or partial content
  fs0,           \* the file system before the run (never changes)
  mPc,           \* main: TempDir, Open, Walk, Send, CloseCh, DbClose, Cleanup, Exit
  rootIdx,       \* index in args of the root being walked
  todo,          \* paths filepath.Walk has still to visit in the current root
  mFent,         \* the fileEntry main is sending
  panicked,      \* main is unwinding from a panic in the walk callback
  exitCode,      \* process exit status (-1 while running)
  dbDir,         \* the temporary directory: none, exists, removed, removeFailed
  db,            \* the leveldb handle: none, open, closed
  index,         \* the store's content: digest -> source path
  hashingClosed,    \* hashingCh is closed
  processingClosed, \* processingCh is closed
  hPc,           \* hashFiles: none, recv, hash, send, done
  hFent,         \* the fileEntry hashFiles holds
  pPc,           \* processFile: none, recv, get, transfer, set, done
  pFent,         \* the fileEntry processFile holds
  pHow,          \* how the transfer of pFent succeeded: rename, copy, fallback
  pGet,          \* what dbh.Get returned for pFent: none, notFound, found, error
  pRemoveErr,    \* history: os.Remove in the last Copy was called and failed
  walkErrs,      \* history: the directories whose reading failed in the walk
  emitted,       \* history: the entries the walker sent, in order
  hashed,        \* history: the entries hashFile returned for, in order
  handled        \* history: the entries processFile finished, in order

vars == <<move, args, fs, fs0, mPc, rootIdx, todo, mFent, panicked, exitCode, dbDir, db,
          index, hashingClosed, processingClosed, hPc, hFent, pPc, pFent, pHow,
          pGet, pRemoveErr, walkErrs, emitted, hashed, handled>>

inputVars == <<move, args, fs0>>

NoFent == [id |-> 0, srcPath |-> <<>>, dstPath |-> <<>>, csum |-> <<>>]

\* The process exit statuses (1 << iota).
ERR_CREATE_TMP_DIR_FAILED == 2
ERR_OPEN_DB_FAILED == 4
\* Exit status of a Go process that dies of a panic (here in the walk callback).
PanicExit == 2

\* The command lines: up to MaxRoots source roots, no root named twice.
RootLists ==
  {l \in UNION {[1..n -> RootChoices] : n \in 1..MaxRoots} :
     \A i, j \in 1..Len(l) : i # j => l[i] # l[j]}

\* The source files in the order a walk of the working directory meets them.
SrcOrder == <<<<"a", Sep, "x">>, <<"a", Sep, "x", ".", "y">>, <<"b", Sep, "x">>>>

\* The source trees, up to a renaming of the contents: a file's content is at
\* most one more than the largest content of the files before it.
SourceTrees ==
  {f \in [Paths -> {Absent} \cup Contents] :
     /\ \A p \in DstPaths \cup Specials : f[p] = Absent
     /\ \A i \in 1..Len(SrcOrder) :
          \A c \in Contents :
            (f[SrcOrder[i]] = c /\ c > 1) =>
              \E j \in 1..(i - 1) : f[SrcOrder[j]] = c - 1}

Init ==
  /\ move \in BOOLEAN
  /\ args \in RootLists
  /\ fs \in SourceTrees
  /\ fs0 = fs
  /\ mPc = "TempDir"
  /\ rootIdx = 0
  /\ todo = <<>>
  /\ mFent = NoFent
  /\ panicked = FALSE
  /\ exitCode = -1
  /\ dbDir = "none"
  /\ db = "none"
  /\ index = <<>>
  /\ hashingClosed = FALSE
  /\ processingClosed = FALSE
  /\ hPc = "none"
  /\ hFent = NoFent
  /\ pPc = "none"
  /\ pFent = NoFent
  /\ pHow = "none"
  /\ pGet = "none"
  /\ pRemoveErr = FALSE
  /\ walkErrs = {}
  /\ emitted = <<>>
  /\ hashed = <<>>
  /\ handled = <<>>

\* The process is alive: goroutines run until main returns or os.Exit is called.
Alive == mPc # "Exit"

\* -------------------------------------------------------------------- main

\* ioutil.TempDir: on failure the process exits before anything is deferred.
MainTempDir ==
  /\ mPc = "TempDir"
  /\ \E ok \in BOOLEAN :
       IF ok THEN /\ dbDir' = "exists"
                  /\ mPc' = "Open"
                  /\ exitCode' = exitCode
             ELSE /\ dbDir' = dbDir
                  /\ mPc' = "Exit"
                  /\ exitCode' = ERR_CREATE_TMP_DIR_FAILED
  /\ UNCHANGED <<inputVars, pGet, pRemoveErr, walkErrs, mFent, fs, rootIdx, todo, panicked, db, index, hashingClosed,
                 processingClosed, hPc, hFent, pPc, pFent, pHow, emitted, hashed,
                 handled>>

\* os.Exit after leveldb.Open failed: deferred calls do not run.
OpenFailedExit ==
  /\ mPc' = "Exit"
  /\ exitCode' = ERR_OPEN_DB_FAILED
  /\ UNCHANGED <<dbDir, db, hPc, pPc, rootIdx, todo>>

\* leveldb.Open succeeded: the channels are made, the two goroutines started,
\* and the first filepath.Walk begins at its root.
OpenedStart ==
  /\ db' = "open"
  /\ hPc' = "recv"
  /\ pPc' = "recv"
  /\ mPc' = "Walk"
  /\ rootIdx' = 1
  /\ todo' = <<args[1]>>
  /\ UNCHANGED <<dbDir, exitCode>>

\* leveldb.Open, with cleanupDbDir already deferred.
MainOpen ==
  /\ mPc = "Open"
  /\ (OpenedStart \/ OpenFailedExit)
  /\ UNCHANGED <<inputVars, pGet, pRemoveErr, walkErrs, mFent, fs, panicked, index, hashingClosed, processingClosed,
                 hFent, pFent, pHow, emitted, hashed, handled>>

\* The walk callback on a directory: nothing is sent and err is returned.
\* When the directory was read, err is nil and Walk descends into its entries;
\* when reading it failed, Walk hands the error to the callback, gets it back
\* and returns, leaving the rest of this root unvisited.
WalkDir ==
  /\ mPc = "Walk"
  /\ todo # <<>>
  /\ IsDir(Head(todo))
  /\ \E readOk \in BOOLEAN :
       IF readOk
         THEN /\ todo' = ChildPaths(fs, Head(todo), DirNames(Clean(Head(todo))))
                           \o Tail(todo)
              /\ walkErrs' = walkErrs
         ELSE /\ todo' = <<>>
              /\ walkErrs' = walkErrs \cup {Clean(Head(todo))}
  /\ UNCHANGED <<inputVars, pGet, pRemoveErr, mFent, fs, mPc, rootIdx, panicked, exitCode, dbDir, db, index,
                 hashingClosed, processingClosed, hPc, hFent, pPc, pFent, pHow,
                 emitted, hashed, handled>>

\* The walk callback on an entry that is not a directory: the fileEntry is
\* built, with dstPath from the split of path at rootDir; main then blocks in
\* the send.
WalkFile ==
  /\ mPc = "Walk"
  /\ todo # <<>>
  /\ ~IsDir(Head(todo))
  /\ IsFile(fs, Head(todo)) \/ IsSpecial(Head(todo))
  /\ LET path == Head(todo)
         d == DstPathOf(path, args[rootIdx], DstDir)
     IN  /\ d # <<>>
         /\ mFent' = [id |-> Len(emitted) + 1, srcPath |-> path,
                      dstPath |-> d[1], csum |-> <<>>]
  /\ mPc' = "Send"
  /\ todo' = Tail(todo)
  /\ UNCHANGED <<inputVars, pGet, pRemoveErr, walkErrs, fs, rootIdx, panicked, exitCode, dbDir, db, index,
                 hashingClosed, processingClosed, hPc, hFent, pPc, pFent, pHow,
                 emitted, hashed, handled>>

\* A mutant of WalkSend: the send completes without hashFiles being at its
\* receive, and the entry takes the place of the one hashFiles holds.
WalkSendNoWait ==
  /\ mPc = "Send"
  /\ hPc \in {"recv", "hash", "send"}
  /\ hFent' = mFent
  /\ hPc' = "hash"
  /\ mFent' = NoFent
  /\ mPc' = "Walk"
  /\ emitted' = Append(emitted, [id |-> mFent.id, srcPath |-> mFent.srcPath,
                                 dstPath |-> mFent.dstPath, root |-> args[rootIdx]])
  /\ UNCHANGED <<inputVars, pGet, pRemoveErr, walkErrs, fs, rootIdx, todo, panicked,
                 exitCode, dbDir, db, index, hashingClosed, processingClosed, pPc,
                 pFent, pHow, hashed, handled>>

\* hashingCh <- &fileEntry{...} meets hashFiles' receive (unbuffered channel);
\* the callback returns nil.
WalkSend ==
  /\ mPc = "Send"
  /\ hPc = "recv"
  /\ hFent' = mFent
  /\ hPc' = "hash"
  /\ mFent' = NoFent
  /\ mPc' = "Walk"
  /\ emitted' = Append(emitted, [id |-> mFent.id, srcPath |-> mFent.srcPath,
                                 dstPath |-> mFent.dstPath, root |-> args[rootIdx]])
  /\ UNCHANGED <<inputVars, pGet, pRemoveErr, walkErrs, fs, rootIdx, todo, panicked, exitCode, dbDir, db, index,
                 hashingClosed, processingClosed, pPc, pFent, pHow, hashed, handled>>

\* The walk callback panics: strings.SplitN(...)[1] is out of range, or Lstat
\* failed on an entry that has gone and info is nil.  main unwinds through its
\* deferred calls.
WalkPanic ==
  /\ mPc = "Walk"
  /\ todo # <<>>
  /\ ~IsDir(Head(todo))
  /\ \/ ~IsFile(fs, Head(todo)) /\ ~IsSpecial(Head(todo))
     \/ DstPathOf(Head(todo), args[rootIdx], DstDir) = <<>>
  /\ panicked' = TRUE
  /\ mPc' = "CloseCh"
  /\ UNCHANGED <<inputVars, pGet, pRemoveErr, walkErrs, mFent, fs, rootIdx, todo, exitCode, dbDir, db, index,
                 hashingClosed, processingClosed, hPc, hFent, pPc, pFent, pHow,
                 emitted, hashed, handled>>

\* filepath.Walk returned: the next root, or the end of main's loop.
WalkNextRoot ==
  /\ mPc = "Walk"
  /\ todo = <<>>
  /\ IF rootIdx < Len(args)
       THEN /\ rootIdx' = rootIdx + 1
            /\ todo' = <<args[rootIdx + 1]>>
            /\ mPc' = mPc
       ELSE /\ mPc' = "CloseCh"
            /\ UNCHANGED <<rootIdx, todo>>
  /\ UNCHANGED <<inputVars, pGet, pRemoveErr, walkErrs, mFent, fs, panicked, exitCode, dbDir, db, index, hashingClosed,
                 processingClosed, hPc, hFent, pPc, pFent, pHow, emitted, hashed,
                 handled>>

\* deferred close(hashingCh)
MainCloseCh ==
  /\ mPc = "CloseCh"
  /\ hashingClosed' = TRUE
  /\ mPc' = "DbClose"
  /\ UNCHANGED <<inputVars, pGet, pRemoveErr, walkErrs, mFent, fs, rootIdx, todo, panicked, exitCode, dbDir, db, index,
                 processingClosed, hPc, hFent, pPc, pFent, pHow, emitted, hashed,
                 handled>>

\* deferred dbh.Close()
MainDbClose ==
  /\ mPc = "DbClose"
  /\ db' = "closed"
  /\ mPc' = "Cleanup"
  /\ UNCHANGED <<inputVars, pGet, pRemoveErr, walkErrs, mFent, fs, rootIdx, todo, panicked, exitCode, dbDir, index,
                 hashingClosed, processingClosed, hPc, hFent, pPc, pFent, pHow,
                 emitted, hashed, handled>>

\* deferred cleanupDbDir(dbDir): os.RemoveAll may fail, which is only printed.
\* main then returns (or the panic ends the process).
MainCleanup ==
  /\ mPc = "Cleanup"
  /\ \E ok \in BOOLEAN : dbDir' = IF ok THEN "removed" ELSE "removeFailed"
  /\ mPc' = "Exit"
  /\ exitCode' = IF panicked THEN PanicExit ELSE 0
  /\ UNCHANGED <<inputVars, pGet, pRemoveErr, walkErrs, mFent, fs, rootIdx, todo, panicked, db, index, hashingClosed,
                 processingClosed, hPc, hFent, pPc, pFent, pHow, emitted, hashed,
                 handled>>

\* --------------------------------------------------------------- hashFiles

\* for more { fent, more = <-hashingCh }: the channel is closed, the loop ends
\* and the deferred close(processingCh) runs.
HashClosed ==
  /\ Alive
  /\ hPc = "recv"
  /\ hashingClosed
  /\ processingClosed' = TRUE
  /\ hPc' = "done"
  /\ UNCHANGED <<inputVars, pGet, pRemoveErr, walkErrs, mFent, fs, mPc, rootIdx, todo, panicked, exitCode, dbDir,
                 db, index, hashingClosed, hFent, pPc, pFent, pHow, emitted, hashed,
                 handled>>

\* A mutant of HashFile: the else is missing, so an entry whose hashing failed
\* is sent on as well.
HashFileForwardsFailed ==
  /\ Alive
  /\ hPc = "hash"
  /\ \E ioOk \in BOOLEAN :
       LET c == fs[hFent.srcPath]
           ok == ioOk /\ c # Absent
       IN  /\ hashed' = Append(hashed, [id |-> hFent.id, ok |-> ok])
           /\ hFent' = [hFent EXCEPT !.csum = IF ok THEN Sha256(c) ELSE <<>>]
           /\ hPc' = "send"
  /\ UNCHANGED <<inputVars, pGet, pRemoveErr, walkErrs, mFent, fs, mPc, rootIdx, todo, panicked, exitCode, dbDir,
                 db, index, hashingClosed, processingClosed, pPc, pFent, pHow,
                 emitted, handled>>

\* A mutant of HashFile: hashFiles returns at the first entry whose hashing
\* failed, closing processingCh through its deferred call.
HashFileReturnsOnError ==
  /\ Alive
  /\ hPc = "hash"
  /\ \E ioOk \in BOOLEAN :
       LET c == fs[hFent.srcPath]
           ok == ioOk /\ c # Absent
       IN  /\ hashed' = Append(hashed, [id |-> hFent.id, ok |-> ok])
           /\ IF ok THEN /\ hFent' = [hFent EXCEPT !.csum = Sha256(c)]
                         /\ hPc' = "send"
                         /\ processingClosed' = processingClosed
                   ELSE /\ hFent' = NoFent
                        /\ hPc' = "done"
                        /\ processingClosed' = TRUE
  /\ UNCHANGED <<inputVars, pGet, pRemoveErr, walkErrs, mFent, fs, mPc, rootIdx, todo,
                 panicked, exitCode, dbDir, db, index, hashingClosed, pPc, pFent,
                 pHow, emitted, handled>>

\* hashFile(fent.srcPath): os.Open or io.Copy may fail (they do when the file
\* is gone); then the error is printed and the entry is not forwarded.
HashFile ==
  /\ Alive
  /\ hPc = "hash"
  /\ \E ioOk \in BOOLEAN :
       LET c == fs[hFent.srcPath]
           ok == ioOk /\ c # Absent
       IN  /\ hashed' = Append(hashed, [id |-> hFent.id, ok |-> ok])
           /\ IF ok THEN /\ hFent' = [hFent EXCEPT !.csum = Sha256(c)]
                         /\ hPc' = "send"
                   ELSE /\ hFent' = NoFent
                        /\ hPc' = "recv"
  /\ UNCHANGED <<inputVars, pGet, pRemoveErr, walkErrs, mFent, fs, mPc, rootIdx, todo, panicked, exitCode, dbDir,
                 db, index, hashingClosed, processingClosed, pPc, pFent, pHow,
                 emitted, handled>>

\* processingCh <- fent meets processFile's receive (unbuffered channel).
HashSend ==
  /\ Alive
  /\ hPc = "send"
  /\ pPc = "recv"
  /\ pFent' = hFent
  /\ pPc' = "get"
  /\ hFent' = NoFent
  /\ hPc' = "recv"
  /\ pGet' = "none"
  /\ UNCHANGED <<inputVars, pRemoveErr, walkErrs, mFent, fs, mPc, rootIdx, todo, panicked, exitCode, dbDir,
                 db, index, hashingClosed, processingClosed, pHow, emitted, hashed,
                 handled>>

\* -------------------------------------------------------------------- Copy

\* What the environment lets Copy's system calls do.
CopyOutcomes == {"ok", "openFail", "mkdirFail", "createFail", "copyFail",
                 "copyFailCloseFail", "copyFailRemoveFail", "closeFail"}

\* A mutant of Copy: the destination is opened without O_EXCL, so an existing
\* file is truncated and overwritten.
CopyNoExcl(f, src, dst, o) ==
  IF f[src] = Absent \/ o \in {"openFail", "mkdirFail", "createFail"}
    THEN [fs |-> f, err |-> TRUE, rmErr |-> FALSE]
  ELSE IF o = "ok" THEN [fs |-> [f EXCEPT ![dst] = f[src]], err |-> FALSE, rmErr |-> FALSE]
  ELSE IF o = "closeFail" THEN [fs |-> [f EXCEPT ![dst] = f[src]], err |-> TRUE, rmErr |-> FALSE]
  ELSE IF o = "copyFail" THEN [fs |-> [f EXCEPT ![dst] = Absent], err |-> TRUE, rmErr |-> FALSE]
  ELSE [fs |-> [f EXCEPT ![dst] = Partial(f[src])], err |-> TRUE, rmErr |-> FALSE]

\* A mutant of Copy: the source is removed once the copy is complete.
CopyRemovesSrc(f, src, dst, o) ==
  IF f[src] = Absent \/ o \in {"openFail", "mkdirFail", "createFail"}
       \/ f[dst] # Absent
    THEN [fs |-> f, err |-> TRUE, rmErr |-> FALSE]
  ELSE IF o = "ok"
    THEN [fs |-> [f EXCEPT ![dst] = f[src], ![src] = Absent], err |-> FALSE, rmErr |-> FALSE]
  ELSE IF o = "closeFail" THEN [fs |-> [f EXCEPT ![dst] = f[src]], err |-> TRUE, rmErr |-> FALSE]
  ELSE IF o = "copyFail" THEN [fs |-> f, err |-> TRUE, rmErr |-> FALSE]
  ELSE [fs |-> [f EXCEPT ![dst] = Partial(f[src])], err |-> TRUE, rmErr |-> FALSE]

\* Copy(src, dst): the file system after it, whether it returned an error, and
\* whether its os.Remove(dst) was called and failed.
Copy(f, src, dst, o) ==
  IF f[src] = Absent \/ o = "openFail"
    THEN [fs |-> f, err |-> TRUE, rmErr |-> FALSE]                      \* os.Open(src)
  ELSE IF o = "mkdirFail"
    THEN [fs |-> f, err |-> TRUE, rmErr |-> FALSE]                      \* os.MkdirAll
  ELSE IF f[dst] # Absent \/ o = "createFail"
    THEN [fs |-> f, err |-> TRUE, rmErr |-> FALSE]                      \* O_CREATE | O_EXCL
  ELSE IF o = "ok"
    THEN [fs |-> [f EXCEPT ![dst] = f[src]], err |-> FALSE, rmErr |-> FALSE]
  ELSE IF o = "closeFail"                              \* return errClose
    THEN [fs |-> [f EXCEPT ![dst] = f[src]], err |-> TRUE, rmErr |-> FALSE]
  ELSE IF o = "copyFailCloseFail"                      \* return err, no Remove
    THEN [fs |-> [f EXCEPT ![dst] = Partial(f[src])], err |-> TRUE, rmErr |-> FALSE]
  ELSE IF o = "copyFail"                               \* os.Remove(dst)
    THEN [fs |-> f, err |-> TRUE, rmErr |-> FALSE]
  ELSE [fs |-> [f EXCEPT ![dst] = Partial(f[src])], err |-> TRUE,   \* Remove fails
        rmErr |-> TRUE]

\* os.Rename(src, dst): an existing destination file is replaced.
Rename(f, src, dst) == [f EXCEPT ![dst] = f[src], ![src] = Absent]

\* The transfer of processFile for an entry not found in the index: the file
\* system after it, whether it failed, and the way it was done.
Transfer(f, fent, mv, mkdirOk, renameOk, o) ==
  IF mv
    THEN IF ~mkdirOk THEN [fs |-> f, err |-> TRUE, rmErr |-> FALSE, how |-> "none"]
         ELSE IF renameOk /\ f[fent.srcPath] # Absent
           THEN [fs |-> Rename(f, fent.srcPath, fent.dstPath), err |-> FALSE,
                 rmErr |-> FALSE, how |-> "rename"]
         ELSE LET r == Copy(f, fent.srcPath, fent.dstPath, o)
              IN  [fs |-> r.fs, err |-> r.err, rmErr |-> r.rmErr, how |-> "fallback"]
    ELSE LET r == Copy(f, fent.srcPath, fent.dstPath, o)
         IN  [fs |-> r.fs, err |-> r.err, rmErr |-> r.rmErr, how |-> "copy"]

\* ------------------------------------------------------------- processFile

\* for more { fent, more = <-processingCh }: the channel is closed.
ProcClosed ==
  /\ Alive
  /\ pPc = "recv"
  /\ processingClosed
  /\ pPc' = "done"
  /\ UNCHANGED <<inputVars, pGet, pRemoveErr, walkErrs, mFent, fs, mPc, rootIdx, todo, panicked, exitCode, dbDir,
                 db, index, hashingClosed, processingClosed, hPc, hFent, pFent, pHow,
                 emitted, hashed, handled>>

Done(fent, res, recorded) ==
  [id |-> fent.id, srcPath |-> fent.srcPath, dstPath |-> fent.dstPath,
   csum |-> fent.csum, res |-> res, recorded |-> recorded]

\* A mutant of DbGet: a recorded key is reported as db.ErrNotFound.
DbGetNeverFound(idx, key, getErr) ==
  IF getErr THEN "error" ELSE "notFound"

\* dbh.Get(key) on the store idx: nil ("found"), db.ErrNotFound, or another
\* error when the store's read fails.
DbGet(idx, key, getErr) ==
  IF getErr THEN "error"
  ELSE IF key \in DOMAIN idx THEN "found" ELSE "notFound"

\* A mutant of ProcGet: any error of dbh.Get is taken for db.ErrNotFound.
ProcGetErrIsNotFound ==
  /\ Alive
  /\ pPc = "get"
  /\ \E getErr \in BOOLEAN :
       LET g == DbGet(index, pFent.csum, getErr)
       IN  /\ pGet' = g
           /\ IF g = "found"
                THEN /\ handled' = Append(handled, Done(pFent, "dup", FALSE))
                     /\ pPc' = "recv"
                     /\ pFent' = NoFent
                ELSE /\ pPc' = "transfer"
                     /\ UNCHANGED <<handled, pFent>>
  /\ UNCHANGED <<inputVars, pRemoveErr, walkErrs, mFent, fs, mPc, rootIdx, todo, panicked,
                 exitCode, dbDir, db, index, hashingClosed, processingClosed, hPc,
                 hFent, pHow, emitted, hashed>>

\* dbh.Get(fent.csum): db.ErrNotFound leads to the transfer, nil skips the
\* entry as a duplicate, any other error skips it too.
ProcGet ==
  /\ Alive
  /\ pPc = "get"
  /\ \E getErr \in BOOLEAN :
       LET g == DbGet(index, pFent.csum, getErr)
       IN  /\ pGet' = g
           /\ IF g = "notFound"
                THEN /\ pPc' = "transfer"
                     /\ UNCHANGED <<handled, pFent>>
              ELSE IF g = "found"
                THEN /\ handled' = Append(handled, Done(pFent, "dup", FALSE))
                     /\ pPc' = "recv"
                     /\ pFent' = NoFent
              ELSE /\ handled' = Append(handled, Done(pFent, "lookupErr", FALSE))
                   /\ pPc' = "recv"
                   /\ pFent' = NoFent
  /\ UNCHANGED <<inputVars, pRemoveErr, walkErrs, mFent, fs, mPc, rootIdx, todo, panicked,
                 exitCode, dbDir, db, index, hashingClosed, processingClosed, hPc,
                 hFent, pHow, emitted, hashed>>

\* A mutant of ProcTransfer: after a failed move or copy the loop does not
\* continue with the next entry but goes on to dbh.Set.
ProcTransferNoContinue ==
  /\ Alive
  /\ pPc = "transfer"
  /\ \E mkdirOk \in BOOLEAN, renameOk \in BOOLEAN, o \in CopyOutcomes :
       LET r == Transfer(fs, pFent, move, mkdirOk, renameOk, o)
       IN  /\ fs' = r.fs
           /\ pRemoveErr' = r.rmErr
           /\ pHow' = IF r.err THEN "failed" ELSE r.how
  /\ pPc' = "set"
  /\ UNCHANGED <<inputVars, pGet, walkErrs, mFent, mPc, rootIdx, todo, panicked, exitCode,
                 dbDir, db, index, hashingClosed, processingClosed, hPc, hFent,
                 pFent, emitted, hashed, handled>>

\* The move or copy of the entry; on an error it is printed and the loop
\* continues with the next entry.
ProcTransfer ==
  /\ Alive
  /\ pPc = "transfer"
  /\ \E mkdirOk \in BOOLEAN, renameOk \in BOOLEAN, o \in CopyOutcomes :
       LET r == Transfer(fs, pFent, move, mkdirOk, renameOk, o)
       IN  /\ fs' = r.fs
           /\ pRemoveErr' = r.rmErr
           /\ IF r.err
                THEN /\ handled' = Append(handled, Done(pFent, "failed", FALSE))
                     /\ pPc' = "recv"
                     /\ pFent' = NoFent
                     /\ pHow' = "none"
                ELSE /\ pPc' = "set"
                     /\ pHow' = r.how
                     /\ UNCHANGED <<handled, pFent>>
  /\ UNCHANGED <<inputVars, pGet, walkErrs, mFent, mPc, rootIdx, todo, panicked, exitCode, dbDir, db,
                 index, hashingClosed, processingClosed, hPc, hFent, emitted, hashed>>

\* The store after dbh.Set(key, val): unchanged when the write fails.
IndexSet(idx, key, val, ok) == IF ok THEN (key :> val) @@ idx ELSE idx

\* dbh.Set(fent.csum, fent.srcPath): its error is not looked at.
ProcSet ==
  /\ Alive
  /\ pPc = "set"
  /\ \E setOk \in BOOLEAN :
       /\ index' = IndexSet(index, pFent.csum, pFent.srcPath, setOk)
       /\ handled' = Append(handled, Done(pFent, pHow, setOk))
  /\ pPc' = "recv"
  /\ pFent' = NoFent
  /\ pHow' = "none"
  /\ UNCHANGED <<inputVars, pGet, pRemoveErr, walkErrs, mFent, fs, mPc, rootIdx, todo, panicked, exitCode, dbDir,
                 db, hashingClosed, processingClosed, hPc, hFent, emitted, hashed>>

\* ------------------------------------------------------------ specification

Next ==
  \/ MainTempDir
  \/ MainOpen
  \/ WalkDir
  \/ WalkFile
  \/ WalkSend
  \/ WalkPanic
  \/ WalkNextRoot
  \/ MainCloseCh
  \/ MainDbClose
  \/ MainCleanup
  \/ HashClosed
  \/ HashFile
  \/ HashSend
  \/ ProcClosed
  \/ ProcGet
  \/ ProcTransfer
  \/ ProcSet

Spec == Init /\ [][Next]_vars

\* ------------------------------------------------------ notions for claims

Range(q) == {q[i] : i \in 1..Len(q)}

\* The results of processFile that mean the transfer succeeded.
TransferResults == {"rename", "copy", "fallback"}

\* The bytes of an emitted entry's source file.
ContentOf(e) == fs0[e.srcPath]

\* filepath.Rel for a file under a clean root: the file's path relative to it.
RelTo(rootClean, path) ==
  IF rootClean = <<".">> THEN path
  ELSE SubSeq(path, Len(rootClean) + 2, Len(path))

\* processFile is between two entries.
BetweenEntries == pPc \in {"recv", "done"}

\* ------------------------------------------------------------------ claims

\* No file operation and no index operation has failed so far, and the walk
\* callback has not panicked.
NoFailureSoFar ==
  /\ ~panicked
  /\ dbDir # "removeFailed"
  /\ walkErrs = {}
  /\ \A d \in Range(hashed) : d.ok
  /\ \A h \in Range(handled) :
       /\ h.res \notin {"failed", "lookupErr"}
       /\ h.res \in TransferResults => h.recorded

\* C1 (Dedup invariant): when the run has ended, for any two emitted files
\* with the same content, the destination tree holds that content at exactly
\* one path, the dstPath of the first of them in emission order, and no later
\* file with that content was transferred.  Stated for the runs in which
\* nothing failed, where no skipped or failed entry can account for a missing
\* or second copy.
C1_DedupAtExit ==
  (mPc = "Exit" /\ NoFailureSoFar) =>
    \A i, j \in 1..Len(emitted) :
      (/\ i < j
       /\ ContentOf(emitted[i]) = ContentOf(emitted[j])
       /\ \A k \in 1..(i - 1) : ContentOf(emitted[k]) # ContentOf(emitted[i]))
      => /\ {p \in DstPaths : fs[p] = ContentOf(emitted[i])} = {emitted[i].dstPath}
         /\ \A h \in Range(handled) : h.id = j => h.res \notin TransferResults

\* C2 (Drain to completion): when main has walked every root and returned,
\* every emitted entry has been dropped by hashFiles or finished by processFile.
C2_DrainedAtExit ==
  (mPc = "Exit" /\ exitCode = 0 /\ ~panicked) =>
    \A e \in Range(emitted) :
      \/ \E d \in Range(hashed) : d.id = e.id /\ ~d.ok
      \/ \E h \in Range(handled) : h.id = e.id

\* C3 (Index invariant): whenever processFile is between two entries, a digest
\* is in the index if and only if a transfer of a file with that digest has
\* succeeded in this run.
C3_IndexIffTransferred ==
  BetweenEntries =>
    \A c \in Contents :
      Sha256(c) \in DOMAIN index
        <=> \E h \in Range(handled) : h.csum = Sha256(c) /\ h.res \in TransferResults

\* C4 (Exclusive-create safety in copy mode): a copy-mode transfer step whose
\* destination path already holds a file fails: the failure is reported, the
\* index is left as it was (the entry's digest is not in it) and the whole
\* file system, the existing destination file included, is unchanged.
C4_ExclusiveCreate ==
  [][(/\ ~move
      /\ pPc = "transfer"
      /\ pPc' # "transfer"
      /\ fs[pFent.dstPath] # Absent)
     => /\ fs' = fs
        /\ index' = index
        /\ pFent.csum \notin DOMAIN index'
        /\ pPc' = "recv"
        /\ handled' = Append(handled, Done(pFent, "failed", FALSE))]_vars

\* C4 witness: in copy mode a second file of different content was refused at
\* a destination path that holds the content the first file copied there.
C4_Witness ==
  /\ ~move
  /\ \E i, j \in 1..Len(handled) :
       /\ i < j
       /\ handled[i].res = "copy"
       /\ handled[j].res = "failed"
       /\ handled[i].dstPath = handled[j].dstPath
       /\ handled[i].csum # handled[j].csum
       /\ Sha256(fs[handled[j].dstPath]) = handled[i].csum

\* C5 (Name collisions never overwrite, in either mode): the destination path
\* of a transferred file keeps that file's content for the rest of the run,
\* and no later entry with that destination path is transferred.
C5_NeverOverwritten ==
  \A i \in 1..Len(handled) :
    handled[i].res \in TransferResults =>
      /\ fs[handled[i].dstPath] = fs0[handled[i].srcPath]
      /\ \A j \in (i + 1)..Len(handled) :
           handled[j].dstPath = handled[i].dstPath
             => handled[j].res \notin TransferResults

\* C6 (Copy mode never deletes or modifies sources): in copy mode every source
\* file holds, in every state of the run, what it held before the run.
C6_CopyKeepsSources ==
  ~move => \A p \in SrcFiles : fs[p] = fs0[p]

\* C6 witness: a copy-mode run has ended after a successful copy, a failed
\* copy and a partial destination file left behind.
C6_Witness ==
  /\ ~move
  /\ mPc = "Exit"
  /\ \E h \in Range(handled) : h.res = "copy"
  /\ \E h \in Range(handled) : h.res = "failed"
  /\ \E p \in DstPaths : fs[p] < 0

\* C7 (Move mode fast path): once processFile has finished an entry whose
\* rename succeeded, the source path is gone, the destination holds the
\* file's bytes and the digest is in the index.
C7_RenameFastPath ==
  (BetweenEntries /\ handled # <<>> /\ Last(handled).res = "rename") =>
    LET h == Last(handled)
    IN  /\ fs[h.srcPath] = Absent
        /\ fs[h.dstPath] = fs0[h.srcPath]
        /\ h.csum \in DOMAIN index

\* C8 (Path mapping): every transferred file's destination path is the
\* destination root joined with the file's path relative to the root under
\* which the walker found it.
C8_PathMapping ==
  \A h \in Range(handled) :
    h.res \in TransferResults =>
      h.dstPath = Join(DstDir, RelTo(Clean(emitted[h.id].root), h.srcPath))

\* C9 (Index store lifecycle): on every exit taken after the temporary
\* directory was created, its removal has been carried out (os.RemoveAll was
\* called on it).
C9_TmpDirCleanedAtExit ==
  (mPc = "Exit" /\ dbDir # "none") => dbDir \in {"removed", "removeFailed"}

\* The ids of a sequence of history records.
Ids(q) == [i \in 1..Len(q) |-> q[i].id]
IsPrefix(p, q) == Len(p) <= Len(q) /\ SubSeq(q, 1, Len(p)) = p
Forwarded == SelectSeq(hashed, LAMBDA d : d.ok)

\* C10 (FIFO ordering): the entries hashFiles hashed are, in order, the
\* entries the walker emitted, and the entries processFile finished are, in
\* order, the hashed entries without the dropped ones; in every state the
\* later stage's sequence is a prefix of the earlier one's, and they are equal
\* once both goroutines have returned.
C10_Fifo ==
  /\ IsPrefix(Ids(hashed), Ids(emitted))
  /\ IsPrefix(Ids(handled), Ids(Forwarded))
  /\ (hPc = "done" /\ pPc = "done") =>
       /\ Ids(hashed) = Ids(emitted)
       /\ Ids(handled) = Ids(Forwarded)

\* C10 witness: both goroutines have returned after three entries were
\* emitted, one of them dropped by hashFiles.
C10_Witness ==
  /\ hPc = "done"
  /\ pPc = "done"
  /\ Len(emitted) = 3
  /\ Len(handled) = 2

\* The entries hashFiles dropped, the entries handed off by the walker and not
\* yet dropped or handled, and the entries the two goroutines hold.
Dropped == SelectSeq(hashed, LAMBDA d : ~d.ok)
InFlight == Len(emitted) - Len(Dropped) - Len(handled)
HashHolds == hPc \in {"hash", "send"}
ProcHolds == pPc \in {"get", "transfer", "set"}
Held == (IF HashHolds THEN 1 ELSE 0) + (IF ProcHolds THEN 1 ELSE 0)

\* C11 (Backpressure): in every reachable state hashFiles holds at most one
\* entry and processFile at most one, the entries sent by the walker and not
\* yet dropped or handled are exactly the ones the two goroutines hold, and so
\* they are never more than two.
C11_Backpressure ==
  /\ HashHolds <=> hFent # NoFent
  /\ ProcHolds <=> pFent # NoFent
  /\ HashHolds /\ ProcHolds => hFent.id # pFent.id
  /\ InFlight = Held
  /\ InFlight <= 2

\* C11 witness: hashFiles and processFile hold an entry each while the walker
\* is blocked in the send of a third.
C11_Witness ==
  /\ InFlight = 2
  /\ mPc = "Send"
  /\ mFent.id = Len(emitted) + 1

\* A handled entry before position j with the digest of handled[j] whose
\* transfer succeeded and was recorded.
RecordedBefore(j) ==
  \E i \in 1..(j - 1) :
    /\ handled[i].csum = handled[j].csum
    /\ handled[i].res \in TransferResults
    /\ handled[i].recorded

\* C12 (Failed transfer is not recorded): a transfer step that fails leaves
\* the index unchanged, with the entry's digest still absent from it; a lookup
\* of a digest that is not in the index and returns without an error leads to
\* a transfer attempt; and no entry is ever skipped as a duplicate unless an
\* earlier entry of the same digest was transferred and recorded.
C12_FailedTransferNotRecorded ==
  /\ [][(pPc = "transfer" /\ pPc' = "recv") =>
          /\ index' = index
          /\ pFent.csum \notin DOMAIN index'
          /\ handled' = Append(handled, Done(pFent, "failed", FALSE))]_vars
  /\ [][(pPc = "get" /\ pPc' # "get" /\ pFent.csum \notin DOMAIN index
                     /\ pGet' # "error") => pPc' = "transfer"]_vars
  /\ [](\A j \in 1..Len(handled) : handled[j].res = "dup" => RecordedBefore(j))

\* C12 witness: the transfer of an entry failed, and a later entry of the same
\* digest was transferred and recorded.
C12_Witness ==
  \E i, j \in 1..Len(handled) :
    /\ i < j
    /\ handled[i].res = "failed"
    /\ handled[j].csum = handled[i].csum
    /\ handled[j].res \in TransferResults
    /\ handled[j].recorded
    /\ \A k \in 1..(j - 1) : handled[k].res = "failed"

\* C13 (Index lookup error): when dbh.Get returns an error other than
\* db.ErrNotFound, that step changes neither the file system nor the index,
\* the entry is finished without a transfer, and processFile is back at its
\* receive for the next entry.
C13_LookupError ==
  [][(pPc = "get" /\ pGet' = "error") =>
      /\ fs' = fs
      /\ index' = index
      /\ handled' = Append(handled, Done(pFent, "lookupErr", FALSE))
      /\ pPc' = "recv"
      /\ pFent' = NoFent]_vars

\* C13 witness: the lookup of an entry failed, its destination path is still
\* empty, and the next entry was transferred and recorded.
C13_Witness ==
  /\ Len(handled) >= 2
  /\ handled[1].res = "lookupErr"
  /\ fs[handled[1].dstPath] = Absent
  /\ fs[handled[1].srcPath] # Absent
  /\ handled[1].csum \notin DOMAIN index
  /\ handled[2].res \in TransferResults
  /\ handled[2].recorded

\* C14 (Move mode fallback): once processFile has finished a move-mode entry
\* whose rename failed and whose fallback Copy succeeded, the destination
\* holds the file's bytes, the source file is still there with its bytes, and
\* the digest is in the index.
C14_MoveFallback ==
  (BetweenEntries /\ handled # <<>> /\ Last(handled).res = "fallback") =>
    LET h == Last(handled)
    IN  /\ move
        /\ fs[h.dstPath] = fs0[h.srcPath]
        /\ fs[h.srcPath] = fs0[h.srcPath]
        /\ fs[h.srcPath] # Absent
        /\ h.csum \in DOMAIN index

PartialContents == {Partial(c) : c \in Contents}

\* C15 (Partial copy cleanup): a transfer step in which Copy created the
\* destination file never leaves a partially written file there, unless
\* os.Remove was called on it and failed.
C15_PartialCopyCleanup ==
  [][(pPc = "transfer" /\ fs[pFent.dstPath] = Absent
                      /\ fs'[pFent.dstPath] \in PartialContents)
       => pRemoveErr']_vars

\* The ids of the entries that are past hashFile and still with hashFiles, with
\* processFile, or finished by processFile.
AtSend == IF hPc = "send" THEN {hFent.id} ELSE {}
AtProc == IF ProcHolds THEN {pFent.id} ELSE {}
HandledIds == {h.id : h \in Range(handled)}

\* C16 (Fingerprinter failure handling): an entry whose hashing failed is
\* never sent on: it is not with processFile and not among the entries
\* processFile finished, and the step that drops it touches neither the file
\* system nor the index and puts hashFiles back at its receive; hashFiles
\* returns only when hashingCh is closed.  An entry whose hashing succeeded
\* carries the digest of its file and is in exactly one place: at hashFiles'
\* send, with processFile, or once in processFile's finished entries.
C16_HashFailure ==
  /\ [](/\ \A d \in Range(Dropped) :
             d.id \notin AtSend \cup AtProc \cup HandledIds
        /\ \A d \in Range(Forwarded) :
             /\ d.id \in AtSend \cup AtProc \cup HandledIds
             /\ d.id \notin AtSend \cap AtProc
             /\ d.id \notin (AtSend \cup AtProc) \cap HandledIds
        /\ \A i, j \in 1..Len(handled) : i # j => handled[i].id # handled[j].id
        /\ \A h \in Range(handled) : h.csum = Sha256(fs0[h.srcPath])
        /\ hPc = "send" => hFent.csum = Sha256(fs0[hFent.srcPath])
        /\ ProcHolds => pFent.csum = Sha256(fs0[pFent.srcPath])
        /\ hPc = "done" => hashingClosed)
  /\ [][(hPc = "hash" /\ hashed' # hashed /\ ~hashed'[Len(hashed')].ok) =>
          /\ hPc' = "recv"
          /\ hFent' = NoFent
          /\ UNCHANGED <<fs, index, handled, pPc, pFent>>]_vars

\* C16 witness: the first entry's hashing failed, and the entry after it was
\* hashed, sent on and transferred by processFile.
C16_Witness ==
  /\ Len(hashed) >= 2
  /\ ~hashed[1].ok
  /\ hashed[2].ok
  /\ fs0[emitted[1].srcPath] # Absent
  /\ \E h \in Range(handled) : h.id = hashed[2].id /\ h.res \in TransferResults

\* Path p lies under the directory with clean path d.
Under(p, d) ==
  \/ d = <<".">>
  \/ Len(p) > Len(d) + 1 /\ SubSeq(p, 1, Len(d) + 1) = d \o <<Sep>>

\* main is past its loop over the roots.
WalksOver == mPc \in {"CloseCh", "DbClose", "Cleanup", "Exit"} /\ db # "none"

\* C17 (Walk error tolerance): once main is past its walks without a panic,
\* every regular file that is under one of the roots, outside every directory
\* whose reading failed, and still at its source path has been emitted for
\* that root.
C17_WalkErrorTolerance ==
  (WalksOver /\ ~panicked) =>
    \A k \in 1..Len(args) : \A p \in SrcFiles :
      (/\ fs[p] # Absent
       /\ Under(p, Clean(args[k]))
       /\ \A d \in walkErrs : ~Under(p, d))
      => \E e \in Range(emitted) : e.srcPath = p /\ e.root = args[k]

\* The entry at path was a regular file when the run began.
RegularFile(path) == IsFile(fs0, path) /\ ~IsSpecial(path) /\ ~IsDir(path)

\* C18 (Walker emits only regular files): every entry the walker has sent, or
\* is about to send, is a regular file; no directory and no symbolic link,
\* device, socket or pipe is emitted.
C18_OnlyRegularFiles ==
  /\ \A e \in Range(emitted) : RegularFile(e.srcPath)
  /\ mPc = "Send" => RegularFile(mFent.srcPath)

\* No step removes a digest from the index or changes the path stored for it,
\* and the only step that adds one is processFile's dbh.Set after a lookup of
\* that digest reported db.ErrNotFound.
IndexOnlyGrows ==
  /\ \A k \in DOMAIN index : k \in DOMAIN index' /\ index'[k] = index[k]
  /\ index' # index =>
       /\ pPc = "set"
       /\ pGet = "notFound"
       /\ pFent.csum \notin DOMAIN index
       /\ index' = (pFent.csum :> pFent.srcPath) @@ index

\* processFile's lookup of a digest that is in the index.
LookupOfRecorded == pPc = "get" /\ pPc' # "get" /\ pFent.csum \in DOMAIN index

\* C19 (Index is append-only within a run), as stated: the index only grows,
\* and every lookup of a recorded digest reports found.
C19_AppendOnly ==
  /\ [][IndexOnlyGrows]_vars
  /\ [][LookupOfRecorded => pGet' = "found"]_vars

\* C19, amended: the index only grows, and a lookup of a recorded digest
\* reports found or fails with an error of the store; it never reports
\* db.ErrNotFound, so the entry is never transferred and the stored path is
\* never written again.
C19_AppendOnlyAmended ==
  /\ [][IndexOnlyGrows]_vars
  /\ [][LookupOfRecorded =>
          /\ pGet' \in {"found", "error"}
          /\ pPc' = "recv"
          /\ UNCHANGED <<fs, index>>]_vars

\* C19 witness: a digest was recorded, then another one, and a later entry
\* with the first digest was found in the index, which still stores the first
\* entry's source path for it.
C19_Witness ==
  \E i, j, k \in 1..Len(handled) :
    /\ i < j /\ j < k
    /\ handled[i].res \in TransferResults /\ handled[i].recorded
    /\ handled[j].res \in TransferResults /\ handled[j].recorded
    /\ handled[j].csum # handled[i].csum
    /\ handled[k].res = "dup"
    /\ handled[k].csum = handled[i].csum
    /\ index[handled[i].csum] = handled[i].srcPath
    /\ handled[k].srcPath # handled[i].srcPath

\* A step in which processFile's dbh.Get or dbh.Set returns.
IndexUse == (pPc = "get" /\ pPc' # "get") \/ (pPc = "set" /\ pPc' # "set")

\* C20 (No use of the index store after teardown): processFile calls dbh.Get
\* and dbh.Set only while the store is open and its directory exists, and main
\* closes the store and removes the directory only after processFile has
\* returned.
C20_NoIndexUseAfterTeardown ==
  [][/\ IndexUse => (db = "open" /\ dbDir = "exists")
     /\ (db = "open" /\ db' = "closed") => pPc = "done"
     /\ (dbDir = "exists" /\ dbDir' # "exists" /\ db # "none") => pPc = "done"]_vars

====
